---- MODULE Spec2Model ----
(***************************************************************************)
(* discord-ext-flow: the Controller's race loop and task lifetimes.        *)
(*                                                                         *)
(* One Controller.invoke coroutine runs on an asyncio event loop together  *)
(* with the external tasks registered on the controller.  A controller     *)
(* action runs from one point where the coroutine may be suspended to the  *)
(* next one; tasks, user interactions and registrations happen only while  *)
(* the coroutine is at such a point.                                       *)
(***************************************************************************)
EXTENDS Integers, Sequences, FiniteSets, TLC

VARIABLES
    pc,                 \* position of the invoke coroutine
    active,             \* controller_var holds this controller
    model,              \* local `model` of invoke: the current screen
    msgable,            \* local `messageable` of invoke: the send target
    tasks,              \* every ExternalResultTask ever created, by id
    persistent_tasks,   \* Controller.persistent_tasks (ids, in order)
    model_tasks,        \* Controller.model_tasks (ids, in order)
    view,               \* the _View of the current screen
    pending_tasks,      \* local `pending_tasks` of _wait_result
    done_tasks,         \* local `done_tasks` of _wait_result still to iterate
    ret,                \* value _wait_result returned to _send
    err,                \* exception travelling out of invoke
    renders,            \* history: every render dispatched, in order
    on_error_log,       \* history: argument of every on_error call
    last_race,          \* history: the split made by the latest race iteration
    discarded,          \* history: succeeded tasks left unrouted when a race loop ended
    era,                \* history: number of screen changes applied
    interacts,          \* history: number of user activations so far
    outside,            \* history: module-level registrations attempted outside a flow
    transitions,        \* history: (from, to) of every transition invoke applied
    modal,              \* the _InnerModal sent by send_modal, if any, and its history
    message,            \* invoke's edit target: the render whose message is edited next, 0 for None
    hook_log,           \* history: the hooks of the screens and the sends, in call order
    conc,               \* two invocations of invoke on this one Controller (used by ConcSpec only)
    ctx,                \* controller_var and the invocations nested in one context (NestSpec)
    controller_model,   \* Controller.model, the model given to __init__
    paginator           \* a Paginator object and the last request made to it (PageSpec)

vars == <<pc, active, model, msgable, tasks, persistent_tasks, model_tasks,
          view, pending_tasks, done_tasks, ret, err, renders, on_error_log,
          last_race, discarded, era, interacts, outside, transitions, modal, message, hook_log, conc, ctx, controller_model, paginator>>

\* ---------------------------------------------------------------- bounds
MaxApp == 1         \* tasks registered by application code
MaxInteract == 1    \* user activations of an interactive element
MaxTrans == 2       \* TransitionScreen results produced
MaxOutside == 1     \* module-level registrations attempted outside a flow
MaxSubmit == 1      \* submits of the modal

\* ---------------------------------------------------------------- data
None == "None"

\* The screens of the flow.  A and B show interactive elements, T shows none
\* (Message.items is None); A's message sets disable_items.
Screens == {"A", "B", "T"}
InitialModel == "A"
MsgItems(m) == m # "T"
MsgDisableItems(m) == m = "A"

\* Result and its four constructors (result.py).
MkResult(type, m, items, inter, is_end) ==
    [type |-> type, model |-> m, items |-> items, inter |-> inter, is_end |-> is_end]
send_message(items, inter) == MkResult("MESSAGE", None, items, inter, FALSE)
next_model(m, inter) == MkResult("MODEL", m, FALSE, inter, FALSE)
continue_flow == MkResult("CONTINUE", None, FALSE, None, FALSE)
finish_flow == MkResult("FINISH", None, FALSE, None, TRUE)
NoResult == MkResult(None, None, FALSE, None, FALSE)

\* What a task registered by the application may return.  An interaction is
\* "fresh" (response not done) or "replied" (response done).
AppResults ==
    {send_message(i, "fresh") : i \in BOOLEAN}
    \cup {next_model(m, "fresh") : m \in Screens}
    \cup {continue_flow, finish_flow}

\* What the implicit wait yields for one activation: the callback's Result with
\* the activation's interaction as origin when the Result names none.
WithInteraction(r, inter) == IF r.inter = None THEN [r EXCEPT !.inter = inter] ELSE r
WaitResults ==
    {WithInteraction(send_message(i, None), "fresh") : i \in BOOLEAN}
    \cup {WithInteraction(next_model(m, None), "fresh") : m \in Screens}
    \cup {WithInteraction(r, i) : r \in {continue_flow, finish_flow}, i \in {"fresh", "replied"}}

\* asyncio.Task states.  "cancelling": cancel() was requested and the
\* CancelledError is not yet delivered (the task is not done()).
DoneStates == {"ok", "exc", "fatal", "cancelled"}
IsDone(t) == t.st \in DoneStates

TaskIds == DOMAIN tasks
AppTasks == {i \in TaskIds : tasks[i].kind = "app"}
ModalTasks == {i \in TaskIds : tasks[i].kind = "modal"}
Range(s) == {s[i] : i \in DOMAIN s}

\* _wait_result returning None rather than (model, messageable).
NoRet == [model |-> None, msgable |-> None]

NoView == [finished |-> FALSE, items |-> FALSE, disable |-> FALSE, disabled |-> FALSE, live |-> FALSE]

\* No modal was sent.  Of a modal: task is the id of its ExternalResultTask,
\* waiting tells that the task has reached `await self.fut`, open that the
\* modal was not stopped, set that on_submit has set the result res of fut.
\* History fields: submits counts the submits, late_callbacks the user
\* callbacks run and late_errors the errors raised by on_submit after the
\* task's cancellation was requested.
NoModal == [task |-> 0, waiting |-> FALSE, open |-> FALSE, set |-> FALSE, res |-> NoResult,
            submits |-> 0, late_callbacks |-> 0, late_errors |-> 0]

\* Positions at which the invoke coroutine is (or may be) suspended, so that
\* other tasks of the event loop run.
SuspendPcs == {"hooks", "sending", "race", "route_sending", "editing", "after"}
Running == pc \in SuspendPcs

\* The invocations of ConcSpec before either called invoke: per invocation
\* its position, its local `model`, whether its view is finished and its
\* local `pending_tasks`; per task the invocation whose view it waits for,
\* the invocations that routed its Result and those that cancelled it.
Invocations == {1, 2}
NoConc ==
    [inv |-> [k \in Invocations |->
                [pc |-> "idle", model |-> InitialModel, finished |-> FALSE, pending |-> {}]],
     owner |-> << >>, applied |-> << >>, cancelled_by |-> << >>]

\* The calling context of NestSpec before any invoke: controller_var at its
\* default, no invocation running, none ended, no module-level registration.
Controllers == {"c1", "c2"}
NoNest ==
    [var |-> None, stack |-> << >>, last_exit |-> [ctl |-> None, how |-> None], regs |-> << >>]

\* No Paginator constructed yet.
NoPaginator ==
    [made |-> FALSE, max_page |-> 0, start_page |-> 0, current_page |-> 0,
     last |-> [op |-> None, page |-> 0, error |-> None]]

Init ==
    /\ pc = "start"
    /\ active = FALSE
    /\ model = InitialModel
    /\ msgable = "initial"
    /\ tasks = << >>
    /\ persistent_tasks = << >>
    /\ model_tasks = << >>
    /\ view = NoView
    /\ pending_tasks = {}
    /\ done_tasks = {}
    /\ ret = NoRet
    /\ err = None
    /\ renders = << >>
    /\ on_error_log = << >>
    /\ last_race = [done |-> {}, raised |-> {}, nlog |-> 0, nrenders |-> 0]
    /\ discarded = {}
    /\ era = 0
    /\ interacts = 0
    /\ outside = [calls |-> 0, errors |-> 0]
    /\ transitions = << >>
    /\ modal = NoModal
    /\ message = 0
    /\ hook_log = << >>
    /\ conc = NoConc
    /\ ctx = NoNest
    /\ controller_model = InitialModel
    /\ paginator = NoPaginator

\* ------------------------------------------------------------ operators

\* ExternalResultTask.__init__: a task scheduled on the loop.  The controller
\* passes no lifetime, so the handle's tag keeps the default.
\* History fields: swept counts the controller's cancel() requests that found
\* the task not done, routed tells that its Result went through exec_result,
\* era is the screen it was registered on and at the position of invoke then,
\* late tells that it completed between the end of one screen's race loop and
\* the next screen's first snapshot, ntrans is the number of transitions
\* applied before it was registered, cb tells that the task is done and its
\* done callback is scheduled on the event loop but has not run, fin tells
\* that the view shown was finished when the task was registered, of is the
\* screen render whose view an implicit wait task waits for (0 otherwise).
ExternalResultTask(kind) ==
    [kind |-> kind, lifetime |-> "PERSISTENT", st |-> "pending", res |-> NoResult,
     swept |-> 0, routed |-> FALSE, era |-> era, at |-> pc, late |-> FALSE,
     ntrans |-> Len(transitions), cb |-> FALSE, fin |-> view.finished,
     of |-> 0]

\* Task.cancel(): a request, honoured when the task next runs; no effect on
\* a task that is done.
Cancel(t) == IF IsDone(t) THEN t ELSE [t EXCEPT !.st = "cancelling"]

\* gather(*tasks) in force_cancel_tasks: `tasks` is the generator the caller
\* passed, already consumed by the cancelling for-loop, so gather is given
\* no awaitable and completes at once.
GatherArgs(ids) == {}

\* force_cancel_tasks: cancel() every task, then await gather(*tasks).
force_cancel_tasks(ts, ids) ==
    [i \in DOMAIN ts |->
        IF i \in ids
        THEN [Cancel(ts[i]) EXCEPT !.swept = IF IsDone(ts[i]) THEN @ ELSE @ + 1]
        ELSE ts[i]]

\* Mutant: every transition is taken as a change of screen.
ScreenChanged_Always(old, new) == TRUE

\* invoke: `if model != _model`
ScreenChanged(old, new) == old # new

\* Mutant: the transition sweeps the persistent tasks as well.
SweepOnTransition_BothLists(old, new) ==
    IF old # new THEN Range(model_tasks) \cup Range(persistent_tasks) ELSE {}

\* The tasks swept when invoke moves from screen `old` to screen `new`.
SweepOnTransition(old, new) == IF ScreenChanged(old, new) THEN Range(model_tasks) ELSE {}

\* The tasks swept by invoke's cleanup callback.
SweepOnExit == Range(model_tasks) \cup Range(persistent_tasks)

\* Mutant: the raced set is rebuilt from the lists, not added to.
Snapshot_Fresh(pend) ==
    {i \in Range(persistent_tasks) : ~IsDone(tasks[i])}
       \cup {i \in Range(model_tasks) : ~IsDone(tasks[i])}

\* _wait_result: pending_tasks |= {not-done tasks of both lists}
Snapshot(pend) ==
    pend \cup {i \in Range(persistent_tasks) : ~IsDone(tasks[i])}
         \cup {i \in Range(model_tasks) : ~IsDone(tasks[i])}

\* wait_first_result: the race returns once a task of the set is done; the
\* set is split into succeeded, raised (cancelled included) and pending.
RaceReady(pend) == \E i \in pend : IsDone(tasks[i])

\* Mutant: the tasks that raised stay in the pending set.
wait_first_result_KeepRaised(pend) ==
    [done    |-> {i \in pend : tasks[i].st = "ok"},
     raised  |-> {i \in pend : tasks[i].st \in {"exc", "fatal", "cancelled"}},
     pending |-> {i \in pend : tasks[i].st # "ok"}]

wait_first_result(pend) ==
    [done    |-> {i \in pend : tasks[i].st = "ok"},
     raised  |-> {i \in pend : tasks[i].st \in {"exc", "fatal", "cancelled"}},
     pending |-> {i \in pend : ~IsDone(tasks[i])}]

\* Mutant: a BaseException of a task is not told from a cancellation.
BaseExceptions_Skipped(raised) == {}

\* Mutant: the CancelledError of a cancelled task counts as a fatal error.
BaseExceptions_WithCancelled(raised) ==
    {i \in raised : tasks[i].st \in {"fatal", "cancelled"}}

\* Mutant: the fatal errors are raised only when no ordinary Exception came
\* with them.
BaseExceptions_UnlessExceptions(raised) ==
    IF \E i \in raised : tasks[i].st = "exc"
    THEN {}
    ELSE {i \in raised : tasks[i].st = "fatal"}

\* _wait_result: the split of raised_tasks
BaseExceptions(raised) == {i \in raised : tasks[i].st = "fatal"}
Exceptions(raised) == {i \in raised : tasks[i].st = "exc"}

\* Mutant: CONTINUE and FINISH are routed without the check that the
\* interaction was replied to.
exec_result_NoConsumeCheck(v, r) ==
    IF r.inter = None
    THEN [error |-> "ValueError", view |-> v, ret |-> NoRet, send |-> FALSE]
    ELSE CASE r.type = "MESSAGE" ->
                [error |-> None, view |-> [v EXCEPT !.items = r.items],
                 ret |-> NoRet, send |-> TRUE]
           [] r.type = "MODEL" ->
                [error |-> None, view |-> [v EXCEPT !.finished = TRUE],
                 ret |-> [model |-> r.model, msgable |-> r.inter], send |-> FALSE]
           [] OTHER ->
                [error |-> None,
                 view |-> IF r.is_end THEN [v EXCEPT !.finished = TRUE] ELSE v,
                 ret |-> NoRet, send |-> FALSE]

\* Mutant: the transition keeps no send target.
TransitionOf_NoTarget(r) == [model |-> r.model, msgable |-> None]

\* exec_result, MODEL case: `return (result._model, messageable)` with
\* messageable = result._interaction.
TransitionOf(r) == [model |-> r.model, msgable |-> r.inter]

\* Mutant: every consumed Continue/Finish stops the view.
EndsView_Always(r) == TRUE

\* exec_result, CONTINUE | FINISH case: `if result._is_end: view.stop()`
EndsView(r) == r.is_end

\* Mutant: only a Continue has its origin context checked.
exec_result_FinishUnchecked(v, r) ==
    IF r.inter = None
    THEN [error |-> "ValueError", view |-> v, ret |-> NoRet, send |-> FALSE]
    ELSE CASE r.type = "MESSAGE" ->
                [error |-> None, view |-> [v EXCEPT !.items = r.items],
                 ret |-> NoRet, send |-> TRUE]
           [] r.type = "MODEL" ->
                [error |-> None, view |-> [v EXCEPT !.finished = TRUE],
                 ret |-> TransitionOf(r), send |-> FALSE]
           [] OTHER ->
                IF r.inter = "fresh" /\ ~r.is_end
                THEN [error |-> "RuntimeError", view |-> v, ret |-> NoRet, send |-> FALSE]
                ELSE [error |-> None,
                      view |-> IF EndsView(r) THEN [v EXCEPT !.finished = TRUE] ELSE v,
                      ret |-> NoRet, send |-> FALSE]

\* Mutant: a transition is returned without stopping the view.
exec_result_ModelKeepsView(v, r) ==
    IF r.inter = None
    THEN [error |-> "ValueError", view |-> v, ret |-> NoRet, send |-> FALSE]
    ELSE CASE r.type = "MESSAGE" ->
                [error |-> None, view |-> [v EXCEPT !.items = r.items],
                 ret |-> NoRet, send |-> TRUE]
           [] r.type = "MODEL" ->
                [error |-> None, view |-> v, ret |-> TransitionOf(r), send |-> FALSE]
           [] OTHER ->
                IF r.inter = "fresh"
                THEN [error |-> "RuntimeError", view |-> v, ret |-> NoRet, send |-> FALSE]
                ELSE [error |-> None,
                      view |-> IF EndsView(r) THEN [v EXCEPT !.finished = TRUE] ELSE v,
                      ret |-> NoRet, send |-> FALSE]

\* exec_result, up to its first await: the error raised, the view after the
\* router's synchronous effects, the value returned and whether a render
\* (send_helper) is dispatched before returning.
exec_result(v, r) ==
    IF r.inter = None
    THEN [error |-> "ValueError", view |-> v, ret |-> NoRet, send |-> FALSE]
    ELSE CASE r.type = "MESSAGE" ->
                [error |-> None, view |-> [v EXCEPT !.items = r.items],
                 ret |-> NoRet, send |-> TRUE]
           [] r.type = "MODEL" ->
                [error |-> None, view |-> [v EXCEPT !.finished = TRUE],
                 ret |-> TransitionOf(r), send |-> FALSE]
           [] OTHER ->
                IF r.inter = "fresh"
                THEN [error |-> "RuntimeError", view |-> v, ret |-> NoRet, send |-> FALSE]
                ELSE [error |-> None,
                      view |-> IF EndsView(r) THEN [v EXCEPT !.finished = TRUE] ELSE v,
                      ret |-> NoRet, send |-> FALSE]

\* Mutant: no screen has its items disabled at the end.
DisablesItems_Never(v) == FALSE

\* _send: `if msg.disable_items:` for the message the view was built from.
DisablesItems(v) == v.disable

\* Mutant: the view is left waiting whatever the new message holds.
StopIfNoItems_Never(v) == v

\* exec_result after its send_helper returned: `if not msg.items: view.stop()`
StopIfNoItems(v) == IF v.items THEN v ELSE [v EXCEPT !.finished = TRUE]

\* Mutant: the for-loop over done_tasks returns only on a transition.
LeavesLoop_IgnoresView(r, v) == r # NoRet

\* Mutant: the for-loop over done_tasks has no early return.
LeavesLoop_Never(r, v) == FALSE

\* _wait_result: `if ret is not None or view.is_finished(): return ret`
LeavesLoop(r, v) == r # NoRet \/ v.finished

\* _send: `message = await send_helper(...)`, the message of the screen.
ScreenMessage ==
    CHOOSE k \in DOMAIN renders :
        /\ renders[k].kind = "screen"
        /\ \A l \in DOMAIN renders : renders[l].kind = "screen" => l <= k

\* The message that shows the view now: the one of the screen, or the one of
\* the latest MESSAGE render that sent a new message.
ShownMessage ==
    LET S == {k \in DOMAIN renders :
                 /\ k >= ScreenMessage
                 /\ renders[k].kind \in {"screen", "message"}
                 /\ renders[k].edit = 0 \/ k = ScreenMessage}
    IN  CHOOSE k \in S : \A l \in S : l <= k

\* _get_view_wait_task(view): the task of view._wait, for the view sent with
\* screen render s.
ViewWaitTask(s) == [ExternalResultTask("wait") EXCEPT !.of = s]

\* The pending implicit wait task of the view shown, if any.
PendingWait ==
    {i \in TaskIds : /\ tasks[i].kind = "wait"
                     /\ tasks[i].st = "pending"
                     /\ tasks[i].of = ScreenMessage}

\* _View.fut.cancel(): the future the implicit wait awaits is cancelled, the
\* task awaiting it is woken with CancelledError when it next runs.
CancelFut(ts) ==
    [i \in DOMAIN ts |-> IF i \in PendingWait THEN [ts[i] EXCEPT !.st = "cancelling"] ELSE ts[i]]

\* A render handed to Discord: `to` is the messageable or interaction it is
\* sent through, `edit` the render whose message it edits (0 when it sends a
\* new message), `items` tells that it shows items of the view.  The message
\* a render sends is named by the render's index.
Render(kind, to, edit, items) ==
    [model |-> model, kind |-> kind, era |-> era, to |-> to, edit |-> edit,
     items |-> items]

\* send_helper for a MESSAGE Result: `if message.edit_original:` the message
\* now showing the view is edited, otherwise a new message is sent.
EditTarget(edit_original, shown) == IF edit_original THEN shown ELSE 0
NumTrans == Cardinality({i \in TaskIds : tasks[i].res.type = "MODEL"})

\* Mutant: no screen is taken as terminal.
IsTerminal_Never(m) == FALSE

\* _send: `if msg.items is None` for the message of screen m.
IsTerminal(m) == ~MsgItems(m)

\* Mutant: the copy keeps the task lists of the original.
copy_WithTasks ==
    [model |-> controller_model, persistent_tasks |-> persistent_tasks,
     model_tasks |-> model_tasks]

\* Controller.copy: `self.__class__(self.model)`, with the fields __init__
\* gives the new object.
copy == [model |-> controller_model, persistent_tasks |-> << >>, model_tasks |-> << >>]

\* ------------------------------------------------- the invoke coroutine

\* invoke: enter the context (controller_var.set), push cleanup, take self.model.
InvokeStart ==
    /\ pc = "start"
    /\ pc' = "hooks"
    /\ active' = TRUE
    /\ model' = controller_model
    /\ UNCHANGED <<msgable, tasks, persistent_tasks, model_tasks, view, pending_tasks,
                   done_tasks, ret, err, renders, on_error_log, last_race, discarded, era, interacts, outside, transitions, modal, message, hook_log, conc, ctx, controller_model, paginator>>

\* Mutant: the message is built before before_invoke is called.
SendHooks_MessageFirst == <<"message", "before_invoke", "send">>

\* _send: `await maybe_coroutine(model.before_invoke)`, then
\* `msg = await maybe_coroutine(model.message)`, then send_helper.
SendHooks == <<"before_invoke", "message", "send">>

\* The calls `hs` made for the screen `m`, as entries of hook_log.
HookCalls(hs, m) == [k \in DOMAIN hs |-> [hook |-> hs[k], model |-> m]]

\* _send: before_invoke and message() have run; the view is built when the
\* message has items; send_helper is called.
SendDispatch ==
    /\ pc = "hooks"
    /\ pc' = "sending"
    /\ view' = IF ~IsTerminal(model)
               THEN [finished |-> FALSE, items |-> TRUE, disable |-> MsgDisableItems(model),
                     disabled |-> FALSE, live |-> TRUE]
               ELSE NoView
    /\ renders' = Append(renders, Render("screen", msgable, message, ~IsTerminal(model)))
    /\ hook_log' = hook_log \o HookCalls(SendHooks, model)
    /\ UNCHANGED <<active, model, msgable, tasks, persistent_tasks, model_tasks,
                   pending_tasks, done_tasks, ret, err, on_error_log, last_race, discarded, era, interacts, outside, transitions, modal, message, conc, ctx, controller_model, paginator>>

\* _send: send_helper returned.  A message without items ends the flow after
\* after_invoke; otherwise the implicit wait task is registered
\* (_get_view_wait_task) and _wait_result starts with an empty pending set.
SendReturn ==
    /\ pc = "sending"
    /\ IF IsTerminal(model)
       THEN /\ pc' = "after"
            /\ UNCHANGED <<tasks, model_tasks, pending_tasks>>
       ELSE /\ pc' = "loop"
            /\ tasks' = Append(tasks, ViewWaitTask(ScreenMessage))
            /\ model_tasks' = Append(model_tasks, Len(tasks) + 1)
            /\ pending_tasks' = {}
    /\ ret' = NoRet
    /\ UNCHANGED <<active, model, msgable, persistent_tasks, view, done_tasks, err,
                   renders, on_error_log, last_race, discarded, era, interacts, outside, transitions, modal, message, hook_log, conc, ctx, controller_model, paginator>>

\* _wait_result: `while not view.is_finished()`, the snapshot, and the call
\* of wait_first_result, which suspends only if no task of the set is done
\* (asyncio.wait refuses an empty set with ValueError).
LoopTop ==
    /\ pc = "loop"
    /\ IF view.finished
       THEN /\ pc' = "postwait"
            /\ ret' = NoRet
            /\ UNCHANGED <<pending_tasks, err>>
       ELSE /\ pending_tasks' = Snapshot(pending_tasks)
            /\ IF pending_tasks' = {}
               THEN pc' = "cleanup" /\ err' = "ValueError"
               ELSE /\ pc' = IF RaceReady(pending_tasks') THEN "partition" ELSE "race"
                    /\ UNCHANGED err
            /\ UNCHANGED ret
    /\ UNCHANGED <<active, model, msgable, tasks, persistent_tasks, model_tasks, view,
                   done_tasks, renders, on_error_log, last_race, discarded, era, interacts, outside, transitions, modal, message, hook_log, conc, ctx, controller_model, paginator>>

\* wait_first_result: asyncio.wait(FIRST_COMPLETED) wakes the coroutine.  Its
\* own done callback on a task was added after that of _get_view_wait_task,
\* so the loop runs it later.
RaceWake ==
    /\ pc = "race"
    /\ RaceReady(pending_tasks)
    /\ \A i \in pending_tasks : ~tasks[i].cb
    /\ pc' = "partition"
    /\ UNCHANGED <<active, model, msgable, tasks, persistent_tasks, model_tasks, view,
                   pending_tasks, done_tasks, ret, err, renders, on_error_log, last_race, discarded, era, interacts, outside, transitions, modal, message, hook_log, conc, ctx, controller_model, paginator>>

\* _wait_result: the split of the raced set, the fatal errors raised as a
\* group, the ordinary ones handed to on_error (which logs and returns).
Partition ==
    /\ pc = "partition"
    /\ LET w == wait_first_result(pending_tasks) IN
       /\ pending_tasks' = w.pending
       /\ last_race' = [done |-> w.done, raised |-> w.raised,
                        nlog |-> Len(on_error_log), nrenders |-> Len(renders)]
       /\ IF BaseExceptions(w.raised) # {}
          THEN /\ pc' = "cleanup"
               /\ err' = "BaseExceptionGroup"
               /\ UNCHANGED <<done_tasks, on_error_log>>
          ELSE /\ pc' = "route"
               /\ done_tasks' = w.done
               /\ on_error_log' = IF Exceptions(w.raised) # {}
                                  THEN Append(on_error_log, Exceptions(w.raised))
                                  ELSE on_error_log
               /\ UNCHANGED err
    /\ UNCHANGED <<active, model, msgable, tasks, persistent_tasks, model_tasks, view,
                   ret, renders, discarded, era, interacts, outside, transitions, modal, message, hook_log, conc, ctx, controller_model, paginator>>

\* _wait_result: `for t in done_tasks` (a set: any order), one exec_result.
RouteNext ==
    /\ pc = "route"
    /\ IF done_tasks = {}
       THEN /\ pc' = "loop"
            /\ UNCHANGED <<tasks, view, done_tasks, ret, err, renders, discarded>>
       ELSE \E t \in done_tasks :
              LET x == exec_result(view, tasks[t].res) IN
              /\ tasks' = [tasks EXCEPT ![t].routed = TRUE]
              /\ view' = x.view
              /\ err' = x.error
              /\ IF x.send
                 THEN \E edit_original \in BOOLEAN :
                        renders' = Append(renders,
                                          Render("message", tasks[t].res.inter,
                                                 EditTarget(edit_original, ShownMessage),
                                                 tasks[t].res.items))
                 ELSE renders' = renders
              /\ ret' = x.ret
              /\ IF x.error # None
                 THEN pc' = "cleanup" /\ done_tasks' = {}
                 ELSE IF x.send
                 THEN pc' = "route_sending" /\ done_tasks' = done_tasks \ {t}
                 ELSE IF LeavesLoop(x.ret, x.view)
                 THEN pc' = "postwait" /\ done_tasks' = {}
                 ELSE pc' = "route" /\ done_tasks' = done_tasks \ {t}
              /\ discarded' = IF done_tasks' = {} THEN discarded \cup (done_tasks \ {t})
                                                  ELSE discarded
    /\ UNCHANGED <<active, model, msgable, persistent_tasks, model_tasks, pending_tasks,
                   on_error_log, last_race, era, interacts, outside, transitions, modal, message, hook_log, conc, ctx, controller_model, paginator>>

\* exec_result, MESSAGE case, after send_helper returned.
RouteSendReturn ==
    /\ pc = "route_sending"
    /\ view' = StopIfNoItems(view)
    /\ IF LeavesLoop(NoRet, view')
       THEN pc' = "postwait" /\ done_tasks' = {} /\ discarded' = discarded \cup done_tasks
       ELSE pc' = "route" /\ UNCHANGED <<done_tasks, discarded>>
    /\ UNCHANGED <<active, model, msgable, tasks, persistent_tasks, model_tasks,
                   pending_tasks, ret, err, renders, on_error_log, last_race, era, interacts, outside, transitions, modal, message, hook_log, conc, ctx, controller_model, paginator>>

\* _send after _wait_result: the assertion, view.fut.cancel(), and the
\* corrective edit when the screen's message sets disable_items.
PostWait ==
    /\ pc = "postwait"
    /\ IF ~view.finished
       THEN /\ pc' = "cleanup"
            /\ err' = "AssertionError"
            /\ UNCHANGED <<tasks, view, renders>>
       ELSE /\ tasks' = CancelFut(tasks)
            /\ UNCHANGED err
            /\ IF DisablesItems(view)
               THEN /\ pc' = "editing"
                    /\ view' = [view EXCEPT !.disabled = TRUE]
                    /\ renders' = Append(renders, Render("disable", None, ScreenMessage, TRUE))
               ELSE /\ pc' = "after"
                    /\ UNCHANGED <<view, renders>>
    /\ UNCHANGED <<active, model, msgable, persistent_tasks, model_tasks, pending_tasks,
                   done_tasks, ret, on_error_log, last_race, discarded, era, interacts, outside, transitions, modal, message, hook_log, conc, ctx, controller_model, paginator>>

\* _send: message.edit(view=view) returned.
EditReturn ==
    /\ pc = "editing"
    /\ pc' = "after"
    /\ UNCHANGED <<active, model, msgable, tasks, persistent_tasks, model_tasks, view,
                   pending_tasks, done_tasks, ret, err, renders, on_error_log, last_race, discarded, era, interacts, outside, transitions, modal, message, hook_log, conc, ctx, controller_model, paginator>>

\* Mutant: invoke goes on whatever _send returned.
InvokeBreaks_Never(r) == FALSE

\* invoke: `if (ret := await self._send(...)) is None: break`
InvokeBreaks(r) == r = NoRet

\* _send: after_invoke has run and _send returns; invoke either leaves its
\* loop or takes the next screen, sweeping model_tasks when the screen changed.
AfterInvoke ==
    /\ pc = "after"
    /\ IF InvokeBreaks(ret)
       THEN /\ pc' = "cleanup"
            /\ UNCHANGED <<model, msgable, message, tasks, era, transitions>>
       ELSE /\ pc' = "hooks"
            /\ msgable' = ret.msgable
            /\ message' = ScreenMessage
            /\ model' = ret.model
            /\ tasks' = force_cancel_tasks(tasks, SweepOnTransition(model, ret.model))
            /\ transitions' = Append(transitions, [from |-> model, to |-> ret.model])
            /\ era' = IF ScreenChanged(model, ret.model) THEN era + 1 ELSE era
            /\ \A i \in GatherArgs(SweepOnTransition(model, ret.model)) : IsDone(tasks'[i])
    /\ ret' = NoRet
    /\ hook_log' = hook_log \o HookCalls(<<"after_invoke">>, model)
    /\ UNCHANGED <<active, persistent_tasks, model_tasks, view, pending_tasks, done_tasks,
                   err, renders, on_error_log, last_race, discarded, interacts, outside, modal, conc, ctx, controller_model, paginator>>

\* invoke: the exit stack runs cleanup (both lists are force-cancelled) and
\* resets controller_var; invoke returns or re-raises.
Cleanup ==
    /\ pc = "cleanup"
    /\ tasks' = force_cancel_tasks(tasks, SweepOnExit)
    /\ \A i \in GatherArgs(SweepOnExit) : IsDone(tasks'[i])
    /\ active' = FALSE
    /\ pc' = IF err = None THEN "returned" ELSE "raised"
    /\ UNCHANGED <<model, msgable, persistent_tasks, model_tasks, view, pending_tasks,
                   done_tasks, ret, err, renders, on_error_log, last_race, discarded, era, interacts, outside, transitions, modal, message, hook_log, conc, ctx, controller_model, paginator>>

\* ------------------------------------------- the rest of the event loop

\* Mutant: the controller of the context is taken without the None check.
get_controller_Unchecked == "controller"

\* _get_controller: the controller held by controller_var in the calling
\* context, RuntimeError when it holds None.
get_controller == IF active THEN "controller" ELSE "RuntimeError"

\* create_external_result, called by application code (a hook, a callback or
\* another task) while the flow runs.
Register(life_time) ==
    /\ Running
    /\ get_controller # "RuntimeError"
    /\ Cardinality(AppTasks \cup ModalTasks) < MaxApp
    /\ tasks' = Append(tasks, ExternalResultTask("app"))
    /\ IF life_time = "PERSISTENT"
       THEN persistent_tasks' = Append(persistent_tasks, Len(tasks) + 1) /\ UNCHANGED model_tasks
       ELSE model_tasks' = Append(model_tasks, Len(tasks) + 1) /\ UNCHANGED persistent_tasks
    /\ UNCHANGED <<pc, active, model, msgable, view, pending_tasks, done_tasks, ret, err,
                   renders, on_error_log, last_race, discarded, era, interacts, outside, transitions, modal, message, hook_log, conc, ctx, controller_model, paginator>>

\* The module-level create_external_result, called by code of the invoking
\* context while no invoke runs in it: _get_controller raises before any
\* task is created.
RegisterOutside(life_time) ==
    /\ pc \in {"start", "returned", "raised"}
    /\ outside.calls < MaxOutside
    /\ IF get_controller = "RuntimeError"
       THEN /\ outside' = [calls |-> outside.calls + 1, errors |-> outside.errors + 1]
            /\ UNCHANGED <<tasks, persistent_tasks, model_tasks>>
       ELSE /\ outside' = [outside EXCEPT !.calls = @ + 1]
            /\ tasks' = Append(tasks, ExternalResultTask("app"))
            /\ IF life_time = "PERSISTENT"
               THEN persistent_tasks' = Append(persistent_tasks, Len(tasks) + 1) /\ UNCHANGED model_tasks
               ELSE model_tasks' = Append(model_tasks, Len(tasks) + 1) /\ UNCHANGED persistent_tasks
    /\ UNCHANGED <<pc, active, model, msgable, view, pending_tasks, done_tasks, ret, err,
                   renders, on_error_log, last_race, discarded, era, interacts, transitions, modal, message, hook_log, conc, ctx, controller_model, paginator>>

\* The coroutine is between the end of one screen's race loop and the first
\* snapshot of the next screen's.
AfterLoopExit ==
    \/ pc \in {"editing", "after", "hooks"} /\ view.live /\ view.finished
    \/ pc = "sending" /\ era > 0

\* A registered coroutine returns a Result.
CompleteOk(t, r) ==
    /\ Running
    /\ t \in AppTasks
    /\ tasks[t].st = "pending"
    /\ r \in AppResults
    /\ r.type = "MODEL" => NumTrans < MaxTrans
    /\ tasks' = [tasks EXCEPT ![t].st = "ok", ![t].res = r, ![t].late = AfterLoopExit]
    /\ UNCHANGED <<pc, active, model, msgable, persistent_tasks, model_tasks, view,
                   pending_tasks, done_tasks, ret, err, renders, on_error_log, last_race, discarded, era, interacts, outside, transitions, modal, message, hook_log, conc, ctx, controller_model, paginator>>

\* A registered coroutine raises: an Exception ("exc") or another
\* BaseException ("fatal").
CompleteRaise(t, how) ==
    /\ Running
    /\ t \in AppTasks
    /\ tasks[t].st = "pending"
    /\ how \in {"exc", "fatal"}
    /\ tasks' = [tasks EXCEPT ![t].st = how]
    /\ UNCHANGED <<pc, active, model, msgable, persistent_tasks, model_tasks, view,
                   pending_tasks, done_tasks, ret, err, renders, on_error_log, last_race, discarded, era, interacts, outside, transitions, modal, message, hook_log, conc, ctx, controller_model, paginator>>

\* ExternalResultTask.cancel(), called by the application on its handle.
CancelByCaller(t) ==
    /\ Running
    /\ t \in AppTasks \cup ModalTasks
    /\ tasks[t].st = "pending"
    /\ tasks' = [tasks EXCEPT ![t] = Cancel(@)]
    /\ UNCHANGED <<pc, active, model, msgable, persistent_tasks, model_tasks, view,
                   pending_tasks, done_tasks, ret, err, renders, on_error_log, last_race, discarded, era, interacts, outside, transitions, modal, message, hook_log, conc, ctx, controller_model, paginator>>

\* The done callback of _get_view_wait_task:
\* `self._get_view_wait_task(view) if not t.cancelled() else None`
Reregisters(st) == st # "cancelled"

\* A task whose cancellation was requested runs and ends cancelled.  The done
\* callback of an implicit wait task runs with t.cancelled() true.
Unwind(t) ==
    /\ Running \/ pc \in {"returned", "raised"}
    /\ t \in TaskIds
    /\ tasks[t].st = "cancelling"
    /\ LET again == tasks[t].kind = "wait" /\ Reregisters("cancelled")
           ts == [tasks EXCEPT ![t].st = "cancelled"]
       IN  /\ tasks' = IF again THEN Append(ts, ViewWaitTask(tasks[t].of)) ELSE ts
           /\ model_tasks' = IF again THEN Append(model_tasks, Len(tasks) + 1)
                              ELSE model_tasks
    /\ UNCHANGED <<pc, active, model, msgable, persistent_tasks, view,
                   pending_tasks, done_tasks, ret, err, renders, on_error_log, last_race, discarded, era, interacts, outside, transitions, modal, message, hook_log, conc, ctx, controller_model, paginator>>

\* The implicit wait `w` ends with state `st` and result `r`.  The loop
\* schedules its done callbacks (call_soon); they have not run yet.
WaitDone(w, st, r) ==
    /\ tasks' = [tasks EXCEPT ![w].st = st, ![w].res = r, ![w].cb = TRUE]
    /\ UNCHANGED model_tasks

\* The done callback that _get_view_wait_task added to the wait `w` runs,
\* one turn of the event loop after the task ended: the wait is registered
\* again unless the task was cancelled.
WaitCallback(w) ==
    /\ Running \/ pc \in {"returned", "raised"}
    /\ w \in TaskIds
    /\ tasks[w].cb
    /\ LET ts == [tasks EXCEPT ![w].cb = FALSE] IN
       IF Reregisters(tasks[w].st)
       THEN /\ tasks' = Append(ts, ViewWaitTask(tasks[w].of))
            /\ model_tasks' = Append(model_tasks, Len(tasks) + 1)
       ELSE /\ tasks' = ts
            /\ UNCHANGED model_tasks
    /\ UNCHANGED <<pc, active, model, msgable, persistent_tasks, view, pending_tasks,
                   done_tasks, ret, err, renders, on_error_log, last_race, discarded, era,
                   interacts, outside, transitions, modal, message, hook_log, conc, ctx, controller_model, paginator>>

\* _InnerModal.fut: set by on_submit; cancelled with the task that awaits it
\* (Task.cancel() cancels the future the task is suspended on).
ModalFut ==
    IF modal.set THEN "set"
    ELSE IF modal.waiting /\ tasks[modal.task].st \in {"cancelling", "cancelled"}
    THEN "cancelled"
    ELSE "pending"

\* send_modal, called in an item callback of the view: the modal is sent and
\* its _wait is registered as one task with life_time=MODEL.
SendModal ==
    /\ Running
    /\ view.live /\ ~view.finished /\ view.items
    /\ PendingWait # {}
    /\ get_controller # "RuntimeError"
    /\ modal.task = 0
    /\ Cardinality(AppTasks \cup ModalTasks) < MaxApp
    /\ tasks' = Append(tasks, ExternalResultTask("modal"))
    /\ model_tasks' = Append(model_tasks, Len(tasks) + 1)
    /\ modal' = [NoModal EXCEPT !.task = Len(tasks) + 1, !.open = TRUE]
    /\ UNCHANGED <<pc, active, model, msgable, persistent_tasks, view, pending_tasks, done_tasks,
                   ret, err, renders, on_error_log, last_race, discarded, era, interacts,
                   outside, transitions, message, hook_log, conc, ctx, controller_model, paginator>>

\* _InnerModal._wait: the task runs up to `await self.fut`; it returns at
\* once when the result is already set.
ModalTaskStart ==
    /\ Running
    /\ modal.task # 0
    /\ ~modal.waiting
    /\ tasks[modal.task].st = "pending"
    /\ modal' = [modal EXCEPT !.waiting = TRUE]
    /\ tasks' = IF modal.set
                THEN [tasks EXCEPT ![modal.task].st = "ok", ![modal.task].res = modal.res]
                ELSE tasks
    /\ UNCHANGED <<pc, active, model, msgable, persistent_tasks, model_tasks, view, pending_tasks,
                   done_tasks, ret, err, renders, on_error_log, last_race, discarded, era,
                   interacts, outside, transitions, message, hook_log, conc, ctx, controller_model, paginator>>

\* _InnerModal.on_submit: the user callback runs and returns r, then
\* fut.set_result(r) (InvalidStateError on a cancelled future), then stop().
ModalSubmit(r) ==
    /\ Running \/ pc \in {"returned", "raised"}
    /\ modal.open
    /\ modal.submits < MaxSubmit
    /\ r \in AppResults
    /\ r.type = "MODEL" => NumTrans < MaxTrans
    /\ LET t == modal.task
           late == tasks[t].st \in {"cancelling", "cancelled"}
       IN  IF ModalFut = "pending"
           THEN /\ modal' = [modal EXCEPT !.set = TRUE, !.res = r, !.open = FALSE,
                                          !.submits = @ + 1,
                                          !.late_callbacks = IF late THEN @ + 1 ELSE @]
                /\ tasks' = IF modal.waiting /\ tasks[t].st = "pending"
                            THEN [tasks EXCEPT ![t].st = "ok", ![t].res = r,
                                               ![t].late = AfterLoopExit]
                            ELSE tasks
           ELSE /\ modal' = [modal EXCEPT !.submits = @ + 1,
                                          !.late_callbacks = IF late THEN @ + 1 ELSE @,
                                          !.late_errors = IF late THEN @ + 1 ELSE @]
                /\ UNCHANGED tasks
    /\ UNCHANGED <<pc, active, model, msgable, persistent_tasks, model_tasks, view, pending_tasks,
                   done_tasks, ret, err, renders, on_error_log, last_race, discarded, era,
                   interacts, outside, transitions, message, hook_log, conc, ctx, controller_model, paginator>>

\* The user activates an element of the view: its callback returns a Result,
\* which the implicit wait task yields.
Interact(r) ==
    /\ Running
    /\ interacts < MaxInteract
    /\ view.live /\ ~view.finished /\ view.items
    /\ r \in WaitResults
    /\ r.type = "MODEL" => NumTrans < MaxTrans
    /\ \E w \in PendingWait : WaitDone(w, "ok", r)
    /\ interacts' = interacts + 1
    /\ UNCHANGED <<pc, active, model, msgable, persistent_tasks, view, pending_tasks,
                   done_tasks, ret, err, renders, on_error_log, last_race, discarded, era, outside, transitions, modal, message, hook_log, conc, ctx, controller_model, paginator>>

\* The user activates an element whose callback raises an Exception.
InteractRaise ==
    /\ Running
    /\ interacts < MaxInteract
    /\ view.live /\ ~view.finished /\ view.items
    /\ \E w \in PendingWait : WaitDone(w, "exc", NoResult)
    /\ interacts' = interacts + 1
    /\ UNCHANGED <<pc, active, model, msgable, persistent_tasks, view, pending_tasks,
                   done_tasks, ret, err, renders, on_error_log, last_race, discarded, era, outside, transitions, modal, message, hook_log, conc, ctx, controller_model, paginator>>

Controller ==
    \/ InvokeStart \/ SendDispatch \/ SendReturn \/ LoopTop \/ RaceWake \/ Partition
    \/ RouteNext \/ RouteSendReturn \/ PostWait \/ EditReturn \/ AfterInvoke \/ Cleanup

Environment ==
    \/ \E l \in {"PERSISTENT", "MODEL"} : Register(l)
    \/ \E l \in {"PERSISTENT", "MODEL"} : RegisterOutside(l)
    \/ \E t \in TaskIds : \E r \in AppResults : CompleteOk(t, r)
    \/ \E t \in TaskIds : \E h \in {"exc", "fatal"} : CompleteRaise(t, h)
    \/ \E t \in TaskIds : CancelByCaller(t)
    \/ \E t \in TaskIds : Unwind(t)
    \/ \E r \in WaitResults : Interact(r)
    \/ InteractRaise
    \/ \E w \in TaskIds : WaitCallback(w)
    \/ SendModal
    \/ ModalTaskStart
    \/ \E r \in AppResults : ModalSubmit(r)

Next == Controller \/ Environment

Spec == Init /\ [][Next]_vars

\* A specification with the fairness of the event loop: a coroutine that can
\* run is run, a requested cancellation is delivered and a scheduled callback
\* is called.  Nothing obliges the user to interact or the application's
\* coroutines to finish.
FairSpec ==
    /\ Spec
    /\ WF_vars(Controller)
    /\ WF_vars(\E t \in TaskIds : Unwind(t))
    /\ WF_vars(\E w \in TaskIds : WaitCallback(w))

\* ------------------------------------- two invocations of one Controller
\* ConcSpec: invoke is called twice on the same Controller object and both
\* coroutines run on one event loop.  Both use self.model_tasks and
\* self.persistent_tasks; each has its own locals and its own _View.

MaxConcTasks == 5   \* implicit wait tasks registered by the two invocations

ConcFrame ==
    <<pc, active, model, msgable, persistent_tasks, view, pending_tasks, done_tasks, ret,
      err, renders, on_error_log, last_race, discarded, era, interacts, outside,
      transitions, modal, message, hook_log, ctx, controller_model, paginator>>

\* What the item callbacks of a view return in ConcSpec.
ConcResults ==
    {WithInteraction(continue_flow, "replied"), WithInteraction(finish_flow, "replied"),
     next_model("B", "fresh")}

\* The _View of invocation k.
ConcView(k) ==
    [finished |-> conc.inv[k].finished, items |-> TRUE, disable |-> FALSE,
     disabled |-> FALSE, live |-> TRUE]

\* force_cancel_tasks by invocation k: the tasks it requests to cancel.
ConcCancelled(k, ids) ==
    [t \in DOMAIN conc.cancelled_by |->
        IF t \in ids /\ ~IsDone(tasks[t])
        THEN conc.cancelled_by[t] \cup {k}
        ELSE conc.cancelled_by[t]]

\* invoke / _send of invocation k up to the first race: the screen is sent,
\* _get_view_wait_task registers the wait in self.model_tasks, and
\* _wait_result takes its first snapshot of both lists.
ConcSend(k) ==
    /\ conc.inv[k].pc = "idle"
    /\ Len(tasks) < MaxConcTasks
    /\ tasks' = Append(tasks, ExternalResultTask("wait"))
    /\ model_tasks' = Append(model_tasks, Len(tasks) + 1)
    /\ conc' = [conc EXCEPT !.inv[k].pc = "race",
                            !.inv[k].finished = FALSE,
                            !.inv[k].pending = Snapshot({}) \cup {Len(tasks) + 1},
                            !.owner = Append(@, k),
                            !.applied = Append(@, {}),
                            !.cancelled_by = Append(@, {})]
    /\ UNCHANGED ConcFrame

\* The user activates an item of the view of invocation k: its wait task
\* ends with the Result and the done callback registers the next wait.
ConcInteract(k, r) ==
    /\ conc.inv[k].pc = "race"
    /\ ~conc.inv[k].finished
    /\ Len(tasks) < MaxConcTasks
    /\ r \in ConcResults
    /\ r.type = "MODEL" => conc.inv[k].model = InitialModel
    /\ \E w \in TaskIds :
          /\ conc.owner[w] = k
          /\ tasks[w].st = "pending"
          /\ tasks' = Append([tasks EXCEPT ![w].st = "ok", ![w].res = r],
                             ExternalResultTask("wait"))
    /\ model_tasks' = Append(model_tasks, Len(tasks) + 1)
    /\ conc' = [conc EXCEPT !.owner = Append(@, k),
                            !.applied = Append(@, {}),
                            !.cancelled_by = Append(@, {})]
    /\ UNCHANGED ConcFrame

\* _wait_result of invocation k wakes: the raced set is split and the Result
\* of a succeeded task is given to exec_result with k's view.  A transition
\* makes invoke sweep self.model_tasks, a finished view ends invoke, whose
\* cleanup sweeps both lists; otherwise the loop takes its next snapshot.
ConcRoute(k) ==
    /\ conc.inv[k].pc = "race"
    /\ RaceReady(conc.inv[k].pending)
    /\ LET w == wait_first_result(conc.inv[k].pending) IN
       IF w.done = {}
       THEN /\ conc' = [conc EXCEPT !.inv[k].pending = Snapshot(w.pending)]
            /\ UNCHANGED tasks
       ELSE \E t \in w.done :
              LET x == exec_result(ConcView(k), tasks[t].res)
                  routed == [tasks EXCEPT ![t].routed = TRUE]
                  app == [conc.applied EXCEPT ![t] = @ \cup {k}]
              IN  IF x.ret # NoRet
                  THEN LET ids == SweepOnTransition(conc.inv[k].model, x.ret.model) IN
                       /\ tasks' = force_cancel_tasks(routed, ids)
                       /\ conc' = [conc EXCEPT !.inv[k] = [pc |-> "idle", model |-> x.ret.model,
                                                           finished |-> TRUE, pending |-> {}],
                                               !.applied = app,
                                               !.cancelled_by = ConcCancelled(k, ids)]
                  ELSE IF LeavesLoop(x.ret, x.view)
                  THEN /\ tasks' = force_cancel_tasks(routed, SweepOnExit)
                       /\ conc' = [conc EXCEPT !.inv[k].pc = "ended",
                                               !.inv[k].finished = TRUE,
                                               !.inv[k].pending = {},
                                               !.applied = app,
                                               !.cancelled_by = ConcCancelled(k, SweepOnExit)]
                  ELSE /\ tasks' = routed
                       /\ conc' = [conc EXCEPT !.inv[k].pending =
                                                   Snapshot(w.pending \cup (w.done \ {t})),
                                               !.applied = app]
    /\ UNCHANGED <<model_tasks, ConcFrame>>

\* A task whose cancellation was requested runs and ends cancelled.
ConcUnwind(t) ==
    /\ t \in TaskIds
    /\ tasks[t].st = "cancelling"
    /\ tasks' = [tasks EXCEPT ![t].st = "cancelled"]
    /\ UNCHANGED <<model_tasks, conc, ConcFrame>>

ConcNext ==
    \/ \E k \in Invocations : ConcSend(k)
    \/ \E k \in Invocations : \E r \in ConcResults : ConcInteract(k, r)
    \/ \E k \in Invocations : ConcRoute(k)
    \/ \E t \in TaskIds : ConcUnwind(t)

ConcSpec == Init /\ [][ConcNext]_vars

\* ------------------------------------------ invocations nested in a context
\* NestSpec: the coroutine that calls invoke awaits it, and a hook or callback
\* awaited inside invoke may call invoke of another Controller object (or of
\* the same one) before the outer one ends.  All of them run in one context
\* and end innermost first, each by returning or by raising.

MaxNest == 3        \* invocations running at once in the context
MaxNestRegs == 2    \* module-level registrations in NestSpec

NestFrame ==
    <<pc, active, model, msgable, tasks, persistent_tasks, model_tasks, view, pending_tasks,
      done_tasks, ret, err, renders, on_error_log, last_race, discarded, era, interacts,
      outside, transitions, modal, message, hook_log, conc, controller_model, paginator>>

\* Mutant: leaving invoke clears controller_var.
ResetToken_ToNone(var, token) == None

\* _AutoRestControllerContext.__exit__: controller_var.reset(self.token) puts
\* back the value the variable had when the token was made.
ResetToken(var, token) == token

\* _get_controller for a value of controller_var.
NestGetController(var) == IF var = None THEN "RuntimeError" ELSE var

\* The controllers of the running invocations, outermost first.
Running_ctls == [k \in DOMAIN ctx.stack |-> ctx.stack[k].ctl]

\* invoke of controller c up to its first await: _set_to_context() keeps the
\* token of controller_var.set(self) on the exit stack.
NestEnter(c) ==
    /\ Len(ctx.stack) < MaxNest
    /\ ctx' = [ctx EXCEPT !.stack = Append(@, [ctl |-> c, token |-> ctx.var]),
                          !.var = c]
    /\ UNCHANGED NestFrame

\* The innermost invoke ends, by returning or with an error: the exit stack
\* runs __exit__ of the context manager either way.
NestExit(how) ==
    /\ ctx.stack # << >>
    /\ LET top == ctx.stack[Len(ctx.stack)] IN
         ctx' = [ctx EXCEPT !.stack = SubSeq(@, 1, Len(@) - 1),
                            !.var = ResetToken(ctx.var, top.token),
                            !.last_exit = [ctl |-> top.ctl, how |-> how]]
    /\ UNCHANGED NestFrame

\* Module-level create_external_result called in the context: the controller
\* it registers with, or the RuntimeError of _get_controller.
NestRegister ==
    /\ Len(ctx.regs) < MaxNestRegs
    /\ ctx' = [ctx EXCEPT !.regs = Append(@, [target |-> NestGetController(ctx.var),
                                              running |-> Running_ctls,
                                              ended |-> ctx.last_exit])]
    /\ UNCHANGED NestFrame

NestNext ==
    \/ \E c \in Controllers : NestEnter(c)
    \/ \E how \in {"return", "raise"} : NestExit(how)
    \/ NestRegister

NestSpec == Init /\ [][NestNext]_vars

\* -------------------------------------------------------------- Paginator
\* PageSpec: a Paginator is constructed over some values and its five control
\* buttons are used in any order; the page number typed into the modal of
\* the middle button is a short text.

MaxValues == 5      \* len(values)
MaxPerPage == 2     \* per_page
MaxStartPage == 2   \* start_page ranges over -1 .. MaxStartPage
MaxText == 2        \* characters typed into the page-number field

PageFrame ==
    <<pc, active, model, msgable, tasks, persistent_tasks, model_tasks, view, pending_tasks,
      done_tasks, ret, err, renders, on_error_log, last_race, discarded, era, interacts,
      outside, transitions, modal, message, hook_log, conc, ctx, controller_model>>

\* The characters of the typed texts, and str.isdigit / int() on them.
Chars == {"0", "1", "2", "3", "9", "-", "x"}
Texts == UNION {[1..n -> Chars] : n \in 1..MaxText}
DigitValue(c) ==
    CASE c = "0" -> 0 [] c = "1" -> 1 [] c = "2" -> 2 [] c = "3" -> 3 [] c = "9" -> 9
      [] OTHER -> -1
isdigit(t) == \A k \in DOMAIN t : DigitValue(t[k]) >= 0
RECURSIVE int(_)
int(t) == IF t = << >> THEN 0
          ELSE 10 * int(SubSeq(t, 1, Len(t) - 1)) + DigitValue(t[Len(t)])

\* Paginator.__init__: max_page is the number of pages the values fill.
divmod(a, b) == [div |-> a \div b, mod |-> a % b]
Paginator(len_values, per_page, start_page) ==
    LET dm == divmod(len_values, per_page) IN
    [made |-> TRUE,
     max_page |-> dm.div + (IF dm.mod # 0 THEN 1 ELSE 0),
     start_page |-> start_page,
     current_page |-> start_page,
     last |-> [op |-> "init", page |-> start_page, error |-> None]]

\* Mutant: the last page number plus one is accepted too.
set_page_number_Inclusive(p, page_number) ==
    IF 0 <= page_number /\ page_number <= p.max_page
    THEN [p EXCEPT !.current_page = page_number]
    ELSE p

\* Paginator._set_page_number
set_page_number(p, page_number) ==
    IF 0 <= page_number /\ page_number < p.max_page
    THEN [p EXCEPT !.current_page = page_number]
    ELSE p

\* A control button's callback: the page it asks for, then _set_page_number.
GoTo(op, page_number) ==
    [set_page_number(paginator, page_number)
        EXCEPT !.last = [op |-> op, page |-> page_number, error |-> None]]

PageNew ==
    /\ ~paginator.made
    /\ \E len_values \in 0..MaxValues, per_page \in 1..MaxPerPage,
          start_page \in -1..MaxStartPage :
            paginator' = Paginator(len_values, per_page, start_page)
    /\ UNCHANGED PageFrame

go_to_first_page ==
    /\ paginator.made
    /\ paginator' = GoTo("first", 0)
    /\ UNCHANGED PageFrame

go_to_previous_page ==
    /\ paginator.made
    /\ paginator' = GoTo("previous", paginator.current_page - 1)
    /\ UNCHANGED PageFrame

go_to_next_page ==
    /\ paginator.made
    /\ paginator' = GoTo("next", paginator.current_page + 1)
    /\ UNCHANGED PageFrame

go_to_last_page ==
    /\ paginator.made
    /\ paginator' = GoTo("last", paginator.max_page - 1)
    /\ UNCHANGED PageFrame

\* _go_to_page's modal callback on the submitted text: the assertion on
\* isdigit, then int(texts[0]) - 1.
go_to_page(text) ==
    /\ paginator.made
    /\ paginator' =
         IF isdigit(text)
         THEN GoTo("page", int(text) - 1)
         ELSE [paginator EXCEPT !.last = [op |-> "page", page |-> -1,
                                          error |-> "AssertionError"]]
    /\ UNCHANGED PageFrame

PageNext ==
    \/ PageNew
    \/ go_to_first_page
    \/ go_to_previous_page
    \/ go_to_next_page
    \/ go_to_last_page
    \/ \E text \in Texts : go_to_page(text)

PageSpec == Init /\ [][PageNext]_vars

\* ---------------------------------------------------------------- claims

ModelTaskIds == Range(model_tasks)
PersistentTaskIds == Range(persistent_tasks)
ScreenRenders(m) == {k \in DOMAIN renders : renders[k].kind = "screen" /\ renders[k].model = m}

\* C1: once invoke has returned, no task registered with the controller
\* (either list, implicit wait tasks included) is still running.
C1_TaskDraining ==
    pc = "returned" => \A i \in ModelTaskIds \cup PersistentTaskIds : IsDone(tasks[i])

\* C2: from the moment the next screen's before_invoke starts, every task
\* that was in model_tasks when the screen changed is done.
C2_SweepAwaited ==
    \A i \in ModelTaskIds : tasks[i].era < era => IsDone(tasks[i])

\* C3: a scoped task registered by the application on screen A is cancelled
\* by the controller exactly once, when a transition to another screen is
\* applied: not while A is still the current screen of the running flow,
\* not left pending by the transition, and not a second time later on.
C3_ScopedCancelledOnce ==
    \A i \in ModelTaskIds \cap AppTasks :
        /\ tasks[i].swept <= 1
        /\ (tasks[i].era = era /\ pc \notin {"returned", "raised"}) => tasks[i].swept = 0
        /\ tasks[i].era < era => tasks[i].st # "pending"

\* C4: a screen change leaves every Persistent task alone: the controller
\* requests no cancellation of it before the flow ends, and a Persistent
\* task registered on an earlier screen and still running is in the raced
\* set whenever the controller is blocked in the next screen's race.
C4_PersistentSurvives ==
    \A i \in PersistentTaskIds :
        /\ pc \notin {"returned", "raised"} => tasks[i].swept = 0
        /\ (pc = "race" /\ tasks[i].era < era /\ ~IsDone(tasks[i])) => i \in pending_tasks

C4_Witness ==
    /\ pc = "race"
    /\ \E i \in PersistentTaskIds :
          tasks[i].era < era /\ tasks[i].st = "pending" /\ i \in pending_tasks

\* The Results that leave the surface waiting when routed: a ShowMessage with
\* elements, and a Continue whose interaction was replied to.
KeepsWaiting(r) ==
    /\ r.inter # None
    /\ \/ r.type = "MESSAGE" /\ r.items
       \/ r.type = "CONTINUE" /\ r.inter = "replied"
RoutedOf(S) == {i \in S : tasks[i].routed}
LastFatal == {i \in last_race.raised : tasks[i].st = "fatal"}
LastExc == {i \in last_race.raised : tasks[i].st = "exc"}

C6_FatalShortCircuit ==
    LastFatal # {} =>
        /\ pc \in {"cleanup", "raised"}
        /\ err = "BaseExceptionGroup"
        /\ Len(renders) = last_race.nrenders

C6_Witness ==
    /\ pc = "raised"
    /\ LastFatal # {}
    /\ last_race.done # {}

C7_Witness ==
    /\ pc = "race"
    /\ Len(on_error_log) = 1
    /\ Cardinality(on_error_log[1]) = 2
    /\ last_race.done = {}

\* C8: a Persistent task of an earlier screen that succeeded between the end
\* of that screen's race loop and the first snapshot of the next screen's is
\* not lost: while the controller is blocked in the next screen's race and the
\* Result is not yet routed, the task is in the raced set.
C8_NoLostResult ==
    \A i \in PersistentTaskIds :
        (/\ pc = "race" /\ tasks[i].era < era
         /\ tasks[i].st = "ok" /\ tasks[i].late /\ ~tasks[i].routed)
            => i \in pending_tasks

\* C9: once the one Persistent task that the first screen registered in its
\* before_invoke has returned finish_flow(), invoke ends (returns or raises)
\* unless the user interacts, whenever the task returned.
C9_BackgroundFinishEnds ==
    (/\ Len(tasks) >= 1
     /\ tasks[1].kind = "app" /\ 1 \in PersistentTaskIds
     /\ tasks[1].at = "hooks" /\ tasks[1].era = 0
     /\ tasks[1].st = "ok" /\ tasks[1].res = finish_flow
     /\ interacts = 0)
        ~> (pc \in {"returned", "raised"} \/ interacts > 0)

\* C10: screen A's only activation returns TransitionScreen(B) and the
\* application registers no task: A is rendered once, B at most once, and
\* once B's render is dispatched every implicit wait task of A is done.
C10_ButtonTransition ==
    (/\ AppTasks = {}
     /\ Len(tasks) >= 1
     /\ tasks[1].res = next_model("B", "fresh"))
        => /\ Cardinality(ScreenRenders("A")) = 1
           /\ Cardinality(ScreenRenders("B")) <= 1
           /\ ScreenRenders("B") # {} =>
                 \A i \in TaskIds : (tasks[i].kind = "wait" /\ tasks[i].era = 0) => IsDone(tasks[i])

\* C11: when two ScopedToScreen tasks succeed in the same race iteration, one
\* with a ShowMessage and the other with a TransitionScreen, the Result of the
\* one registered later is never routed, whichever of the two that is.
C11_TieBreakByRegistration ==
    \A i \in last_race.done \cap ModelTaskIds : \A j \in last_race.done \cap ModelTaskIds :
        (/\ i < j
         /\ {tasks[i].res.type, tasks[j].res.type} = {"MESSAGE", "MODEL"})
            => ~tasks[j].routed

\* C12: once a Continue whose interaction was not replied to has been routed,
\* invoke is on its way out with the RuntimeError of exec_result: it does not
\* go back to waiting.
C12_UnconsumedContext ==
    \A i \in TaskIds :
        (/\ tasks[i].routed
         /\ tasks[i].res.type = "CONTINUE"
         /\ tasks[i].res.inter = "fresh")
            => pc \in {"cleanup", "raised"} /\ err = "RuntimeError"

C12_Witness ==
    /\ pc = "raised"
    /\ err = "RuntimeError"
    /\ \E i \in TaskIds : tasks[i].routed /\ tasks[i].res.type = "CONTINUE"
                          /\ tasks[i].res.inter = "fresh"

\* C13: every module-level create_external_result called while no controller
\* is active was refused with RuntimeError and created no task: each task
\* created through the module-level function was created while invoke was
\* running, and every task is held by one of the two lists of the controller.
C13_RegistrationNeedsController ==
    /\ outside.errors = outside.calls
    /\ \A i \in AppTasks \cup ModalTasks : tasks[i].at \in SuspendPcs
    /\ \A i \in TaskIds : (i \in ModelTaskIds) # (i \in PersistentTaskIds)
    /\ Len(tasks) = Len(persistent_tasks) + Len(model_tasks)

C13_Witness ==
    /\ outside.calls = 1
    /\ outside.errors = 1
    /\ pc = "returned"
    /\ AppTasks # {}

\* C14: once an error has left invoke, no task registered with the
\* controller (either list) is still running.
C14_CleanupOnError ==
    pc = "raised" => \A i \in ModelTaskIds \cup PersistentTaskIds : IsDone(tasks[i])

\* C15: once a Result built by Result.finish_flow(), which names no
\* interaction, has been routed, the surface is finished and no error is on
\* its way out of invoke.
C15_FinishFlowEnds ==
    \A i \in TaskIds :
        (tasks[i].routed /\ tasks[i].res = finish_flow)
            => view.finished /\ err = None /\ pc # "raised"

\* C16: a task registered while the controller is blocked in a race has
\* succeeded, it is not in the raced set, and no raced task is done: then its
\* Result is eventually routed, unless the user interacts or invoke ends.
C16_NewTaskNoticed ==
    (/\ pc = "race"
     /\ ~RaceReady(pending_tasks)
     /\ interacts = 0
     /\ \E i \in AppTasks : /\ tasks[i].at = "race"
                            /\ tasks[i].st = "ok"
                            /\ i \notin pending_tasks
                            /\ ~tasks[i].routed)
        ~> (\/ \E i \in AppTasks : tasks[i].routed
            \/ interacts > 0
            \/ pc \in {"returned", "raised"})

\* While the screen without items is current: the controller is nowhere in
\* the race loop, has built no view and registered no implicit wait for it,
\* has rendered it at most once, and no error is under way.
TerminalScreenSafe ==
    model = "T" =>
        /\ pc \in {"hooks", "sending", "after", "cleanup", "returned"}
        /\ err = None
        /\ pc # "hooks" =>
              \A i \in TaskIds : tasks[i].kind = "wait" => tasks[i].of # ScreenMessage
        /\ pc # "hooks" => view = NoView
        /\ Cardinality(ScreenRenders("T")) = IF pc = "hooks" THEN 0 ELSE 1

\* C17: a screen whose message has no items is terminal: it is sent once,
\* never waited on, and invoke returns after it.
C17_TerminalScreen ==
    /\ []TerminalScreenSafe
    /\ (model = "T") ~> (pc = "returned")

C17_Witness ==
    /\ model = "T"
    /\ pc = "returned"
    /\ Cardinality(ScreenRenders("T")) = 1

\* The transitions applied after task i was registered that changed the screen.
ScreenChangesSince(i) ==
    {k \in DOMAIN transitions : k > tasks[i].ntrans /\ transitions[k].from # transitions[k].to}

\* C18: a transition to the screen that is already current cancels no scoped
\* task of the application: while the flow runs, the controller has requested
\* the cancellation of such a task only if the screen changed after the task
\* was registered.  And the screen is rendered again: every applied
\* transition, to the same screen or another, is followed by a screen render.
C18_SameScreenNoSweep ==
    /\ \A i \in ModelTaskIds \cap AppTasks :
          (tasks[i].swept > 0 /\ pc \notin {"returned", "raised"})
              => ScreenChangesSince(i) # {}
    /\ pc \in {"sending", "loop", "race", "partition", "route", "route_sending",
               "postwait", "editing", "after"}
          => Cardinality({k \in DOMAIN renders : renders[k].kind = "screen"})
                = Len(transitions) + 1

C18_Witness ==
    /\ pc = "race"
    /\ Len(transitions) = 1
    /\ transitions[1].from = transitions[1].to
    /\ Cardinality(ScreenRenders(model)) = 2
    /\ \E i \in ModelTaskIds \cap AppTasks :
          tasks[i].ntrans = 0 /\ tasks[i].st = "pending" /\ i \in pending_tasks

\* C19: send_modal registers one scoped task for the modal, and once the
\* cancellation of that task has been requested a submit of the modal runs no
\* user callback, raises no error and gives the task no Result.
C19_CancelledModalIsDead ==
    /\ Cardinality(ModalTasks) <= 1
    /\ ModalTasks \subseteq ModelTaskIds \ PersistentTaskIds
    /\ modal.late_callbacks = 0
    /\ modal.late_errors = 0
    /\ \A i \in ModalTasks : tasks[i].st \in {"cancelling", "cancelled"} => tasks[i].res = NoResult

\* The Results that finish the surface when routed: a TransitionScreen, a
\* Finish whose interaction was replied to, a ShowMessage without elements.
FinishesSurface(r) ==
    /\ r.inter # None
    /\ \/ r.type = "MODEL"
       \/ r.type = "FINISH" /\ r.inter = "replied"
       \/ r.type = "MESSAGE" /\ ~r.items

\* C20: the for-loop over an iteration's succeeded tasks goes on to another
\* Result only while the surface is not finished and no transition was
\* returned; at most one routed Result of an iteration finishes the surface;
\* and a task skipped this way is never routed nor raced later.
C20_StopAtFinish ==
    /\ (pc = "route" /\ done_tasks # {}) => ~view.finished /\ ret = NoRet
    /\ Cardinality({i \in RoutedOf(last_race.done) : FinishesSurface(tasks[i].res)}) <= 1
    /\ \A i \in discarded :
          /\ ~tasks[i].routed
          /\ i \notin pending_tasks \cup done_tasks
          /\ i \in last_race.done => RoutedOf(last_race.done) # {}

C20_Witness ==
    /\ pc = "race"
    /\ era >= 1
    /\ \E i \in discarded : tasks[i].st = "ok" /\ ~tasks[i].routed
    /\ \E j \in TaskIds : tasks[j].routed /\ FinishesSurface(tasks[j].res)

\* C24: when the snapshot of the not-done tasks is empty while the view is
\* not finished, the race loop blocks (until a task is registered) instead of
\* raising or leaving the loop.
C24_EmptySnapshotBlocks ==
    [][(pc = "loop" /\ ~view.finished /\ Snapshot(pending_tasks) = {})
          => (pc' = "race" /\ err' = None)]_vars

PrevScreenRender(k) ==
    LET S == {l \in DOMAIN renders : l < k /\ renders[l].kind = "screen"}
    IN  IF S = {} THEN 0 ELSE CHOOSE l \in S : \A m \in S : m <= l

\* C22: routing a MODEL Result finishes the view and returns the Result's
\* model with the Result's interaction; the next screen rendered is that
\* model, sent through that interaction, with the message of the previous
\* screen as edit target.
C22_TransitionRendersNext ==
    /\ (pc \in {"postwait", "editing", "after"} /\ ret # NoRet) =>
          /\ view.finished
          /\ \E i \in RoutedOf(last_race.done) :
                /\ tasks[i].res.type = "MODEL"
                /\ ret = [model |-> tasks[i].res.model, msgable |-> tasks[i].res.inter]
    /\ (pc = "sending" /\ transitions # << >>) =>
          LET k == Len(renders) IN
          /\ renders[k].kind = "screen"
          /\ renders[k].edit # 0
          /\ renders[k].edit = PrevScreenRender(k)
          /\ \E i \in RoutedOf(last_race.done) :
                /\ tasks[i].res.type = "MODEL"
                /\ renders[k].model = tasks[i].res.model
                /\ renders[k].to = tasks[i].res.inter

C22_Witness ==
    /\ pc = "sending"
    /\ Len(transitions) = 1
    /\ model = "B"
    /\ renders[Len(renders)] =
          [model |-> "B", kind |-> "screen", era |-> 1, to |-> "fresh", edit |-> 1,
           items |-> TRUE]

\* C23: routing a CONTINUE Result whose interaction was already responded to
\* changes nothing: the view, the screen, the task lists and the raced set
\* stay as they are, nothing is rendered, nothing is returned or raised, and
\* the loop goes on with the next task.
C23_ConsumedContinueIsNoop ==
    [][\A t \in TaskIds :
          (/\ ~tasks[t].routed
           /\ t \in DOMAIN tasks' /\ tasks'[t].routed
           /\ tasks[t].res.type = "CONTINUE"
           /\ tasks[t].res.inter = "replied") =>
              /\ view' = view
              /\ model' = model /\ era' = era /\ msgable' = msgable
              /\ persistent_tasks' = persistent_tasks /\ model_tasks' = model_tasks
              /\ pending_tasks' = pending_tasks
              /\ tasks' = [tasks EXCEPT ![t].routed = TRUE]
              /\ renders' = renders /\ transitions' = transitions
              /\ ret' = NoRet /\ err' = None
              /\ pc' = "route"]_vars

C23_Witness ==
    /\ pc = "race"
    /\ ~view.finished /\ view.items
    /\ transitions = << >>
    /\ Len(renders) = 1
    /\ \E t \in TaskIds :
          /\ tasks[t].routed
          /\ tasks[t].res.type = "CONTINUE"
          /\ tasks[t].res.inter = "replied"

\* C25: no implicit wait task is registered for a view that is finished, and
\* once _send has returned for a screen whose view finished, no implicit wait
\* task is left pending without a cancellation request.
C25_WaitCancelledAtFinish ==
    /\ \A i \in TaskIds : tasks[i].kind = "wait" => ~tasks[i].fin
    /\ (pc \in {"hooks", "cleanup", "returned"} /\ view.finished /\ err = None) =>
          PendingWait = {}

\* The corrective edits issued for the message of screen render s.
DisableRenders(s) ==
    {k \in DOMAIN renders : renders[k].kind = "disable" /\ renders[k].edit = s}

\* C26: when the message of a screen sets disable_items, then once its view
\* is finished all items are marked disabled and one corrective edit of the
\* screen's message is issued, in the step that cancelled the implicit wait
\* and before after_invoke; a screen without disable_items gets no such edit.
C26_DisableItemsAtFinish ==
    /\ [](/\ \A k \in DOMAIN renders :
                renders[k].kind = "disable" =>
                   /\ MsgDisableItems(renders[k].model)
                   /\ renders[k].edit = PrevScreenRender(k)
                   /\ Cardinality(DisableRenders(renders[k].edit)) = 1
          /\ (pc = "after" /\ view.live) =>
                /\ view.finished
                /\ view.disabled = MsgDisableItems(model)
                /\ Cardinality(DisableRenders(ScreenMessage))
                      = IF MsgDisableItems(model) THEN 1 ELSE 0
          /\ pc = "editing" =>
                view.disabled /\ renders[Len(renders)].kind = "disable")
    /\ [][(Len(renders') > Len(renders) /\ renders'[Len(renders')].kind = "disable") =>
             /\ pc = "postwait" /\ pc' = "editing"
             /\ view.finished
             /\ PendingWait' = {}]_vars

C26_Witness ==
    /\ pc = "after"
    /\ model = "A"
    /\ view.live /\ view.finished /\ view.disabled
    /\ renders[Len(renders)].kind = "disable"

\* The hook calls of one rendered screen, in the order the claim requires.
HookOrder == <<"before_invoke", "message", "send", "after_invoke">>

\* C27: for every rendered screen before_invoke is called before message(),
\* message() before the send, and after_invoke once, after the wait on the
\* view ended (for a screen without items: right after the send) and before
\* the before_invoke of the next screen.
C27_HookOrdering ==
    /\ [](/\ \A k \in DOMAIN hook_log :
                /\ hook_log[k].hook = HookOrder[((k - 1) % 4) + 1]
                /\ hook_log[k].model = hook_log[k - ((k - 1) % 4)].model
          /\ pc \in {"hooks", "returned"} => Len(hook_log) % 4 = 0
          /\ pc \in {"sending", "loop", "race", "partition", "route", "route_sending",
                      "postwait", "editing", "after"} =>
                /\ Len(hook_log) % 4 = 3
                /\ hook_log[Len(hook_log)].model = model
          /\ Cardinality({k \in DOMAIN hook_log : hook_log[k].hook = "send"})
                = Cardinality({k \in DOMAIN renders : renders[k].kind = "screen"}))
    /\ [][Len(hook_log') > Len(hook_log) =>
             IF pc = "hooks"
             THEN renders' = Append(renders, Render("screen", msgable, message, ~IsTerminal(model)))
             ELSE /\ pc = "after"
                  /\ hook_log' = Append(hook_log, [hook |-> "after_invoke", model |-> model])
                  /\ IF IsTerminal(model)
                     THEN renders[Len(renders)].kind = "screen"
                     ELSE view.live /\ view.finished]_vars

C27_Witness ==
    /\ pc = "sending"
    /\ model = "B"
    /\ Len(hook_log) = 7
    /\ hook_log[4] = [hook |-> "after_invoke", model |-> "A"]
    /\ hook_log[5] = [hook |-> "before_invoke", model |-> "B"]

\* C28: when invoke ends with an error raised in the race loop, the
\* after_invoke of the screen that was shown has been called once.
C28_AfterInvokeOnError ==
    pc = "raised" =>
       /\ hook_log # << >>
       /\ hook_log[Len(hook_log)] = [hook |-> "after_invoke", model |-> model]
       /\ Len(hook_log) % 4 = 0

\* C29: the handle of every task carries the lifetime it was registered
\* with: MODEL for the tasks of model_tasks (the implicit wait and the modal
\* tasks among them), PERSISTENT for those of persistent_tasks.
C29_LifetimeTag ==
    /\ \A i \in ModelTaskIds : tasks[i].lifetime = "MODEL"
    /\ \A i \in PersistentTaskIds : tasks[i].lifetime = "PERSISTENT"

\* C30: within the race loop of a screen, the tasks the partition left
\* pending are all in the raced set of the next iteration, whether still
\* running or completed while the Results were applied; the partition keeps
\* the tasks not done in the set and puts those that succeeded meanwhile in
\* the set whose Results are routed.
C30_RacedSetCarried ==
    /\ [][(pc = "loop" /\ ~view.finished /\ pc' # "cleanup") =>
             /\ pending_tasks \subseteq pending_tasks'
             /\ RaceReady(pending_tasks) => pc' = "partition"]_vars
    /\ [][pc = "partition" =>
             \A i \in pending_tasks :
                IF ~IsDone(tasks[i])
                THEN pc' = "cleanup" \/ i \in pending_tasks'
                ELSE tasks[i].st = "ok" => (pc' = "cleanup" \/ i \in done_tasks')]_vars

C30_Witness ==
    /\ pc = "loop"
    /\ ~view.finished
    /\ renders[Len(renders)].kind = "message"
    /\ \E i \in pending_tasks :
          tasks[i].kind = "app" /\ tasks[i].st = "ok" /\ ~tasks[i].routed

\* C31: when a race iteration holds a fatal failure, whatever else it holds,
\* the error group is raised at once: on_error is not called for the
\* iteration, none of its failed tasks is handed to on_error and none of its
\* succeeded tasks is routed.
C31_FatalTakesPrecedence ==
    LastFatal # {} =>
        /\ pc \in {"cleanup", "raised"}
        /\ err = "BaseExceptionGroup"
        /\ Len(on_error_log) = last_race.nlog
        /\ \A k \in DOMAIN on_error_log : on_error_log[k] \cap last_race.raised = {}
        /\ RoutedOf(last_race.done) = {}
        /\ done_tasks = {}

C31_Witness ==
    /\ pc = "raised"
    /\ LastFatal # {}
    /\ LastExc # {} \/ last_race.done # {}
    /\ \E i \in last_race.raised \cup last_race.done : tasks[i].kind = "wait"

\* The tasks of the last race iteration that ended cancelled.
LastCancelled == {i \in last_race.raised : tasks[i].st = "cancelled"}

\* C32: a task cancelled through its handle is neither fatal nor
\* recoverable: it is never handed to on_error, never routed and not raced
\* again, and an iteration that found only cancelled tasks leaves invoke in
\* the race loop without an error.
C32_CancelledIsIgnored ==
    /\ \A i \in TaskIds :
          tasks[i].st = "cancelled" =>
             /\ ~tasks[i].routed
             /\ \A k \in DOMAIN on_error_log : i \notin on_error_log[k]
             /\ i \in last_race.raised => i \notin pending_tasks \cup done_tasks
    /\ (LastCancelled # {} /\ LastCancelled = last_race.raised /\ last_race.done = {}) =>
          /\ pc \in {"route", "loop", "race", "partition"}
          /\ err = None
          /\ Len(on_error_log) = last_race.nlog
          /\ Len(renders) = last_race.nrenders

C32_Witness ==
    /\ pc = "race"
    /\ last_race.done = {}
    /\ \E i \in AppTasks :
          /\ last_race.raised = {i}
          /\ tasks[i].st = "cancelled"
          /\ tasks[i].swept = 0

\* C33: with invoke running twice on one Controller, the Result of an
\* implicit wait task is given only to the view of the invocation that
\* registered it, and a task is cancelled only by the invocation that
\* registered it.
C33_InvocationsIsolated ==
    \A t \in DOMAIN conc.owner :
        /\ conc.applied[t] \subseteq {conc.owner[t]}
        /\ conc.cancelled_by[t] \subseteq {conc.owner[t]}

\* The messages sent for the view that render d belongs to and showing its
\* items: the message of the screen and every MESSAGE render before d that
\* sent a new message.
SurfaceMessages(d) ==
    {k \in DOMAIN renders :
        /\ PrevScreenRender(d) <= k /\ k < d
        /\ renders[k].kind \in {"screen", "message"}
        /\ renders[k].items
        /\ renders[k].edit = 0 \/ k = PrevScreenRender(d)}

\* C34: when the corrective edit of a disable_items screen has been issued,
\* every message sent for that view that shows items has got such an edit,
\* the one showing the view now included.
C34_DisableReachesShownMessage ==
    \A d \in DOMAIN renders :
        renders[d].kind = "disable" =>
           \A k \in SurfaceMessages(d) :
              \E e \in DOMAIN renders :
                 renders[e].kind = "disable" /\ renders[e].edit = k /\ e > k

C36_AssertNeverFails ==
    /\ pc = "postwait" => (view.live /\ view.finished)
    /\ err # "AssertionError"

C36_Witness ==
    /\ pc = "postwait"
    /\ ret # NoRet
    /\ view.finished
    /\ \E t \in RoutedOf(last_race.done) : tasks[t].res.type = "MODEL"

\* C37: a routed Finish whose origin context was not replied to raises the
\* RuntimeError a Continue raises, and the router leaves the view unfinished:
\* invoke is on its way out with that error and the view was never stopped.
C37_UnconsumedFinish ==
    /\ \A i \in TaskIds :
          (/\ tasks[i].routed
           /\ tasks[i].res.type = "FINISH"
           /\ tasks[i].res.inter = "fresh")
              => /\ pc \in {"cleanup", "raised"}
                 /\ err = "RuntimeError"
                 /\ ~view.finished
                 /\ ret = NoRet
    /\ \A r \in AppResults \cup WaitResults :
          (r.type = "FINISH" /\ r.inter = "fresh") =>
              /\ exec_result(view, r).error = "RuntimeError"
              /\ exec_result(view, r).error
                    = exec_result(view, [r EXCEPT !.type = "CONTINUE", !.is_end = FALSE]).error
              /\ exec_result(view, r).view = view

C37_Witness ==
    /\ pc = "raised"
    /\ err = "RuntimeError"
    /\ ~view.finished
    /\ \E i \in TaskIds : tasks[i].routed /\ tasks[i].res.type = "FINISH"
                          /\ tasks[i].res.inter = "fresh"

\* C38: controller_var is scoped to invoke.  When an invoke ends, by return
\* or by error, the variable holds what it held before that invoke began: the
\* controller of the invocation around it, or nothing.  So a module-level
\* registration goes to the innermost running invocation's controller and
\* fails when none is running, whatever invocation ended before it.
C38_ContextScopedToInvoke ==
    /\ [](/\ ctx.var = (IF ctx.stack = << >> THEN None
                         ELSE ctx.stack[Len(ctx.stack)].ctl)
          /\ \A k \in DOMAIN ctx.regs :
                ctx.regs[k].target =
                    (IF ctx.regs[k].running = << >> THEN "RuntimeError"
                     ELSE ctx.regs[k].running[Len(ctx.regs[k].running)]))
    /\ [][Len(ctx'.stack) < Len(ctx.stack) =>
             ctx'.var = (IF Len(ctx.stack) = 1 THEN None
                         ELSE ctx.stack[Len(ctx.stack) - 1].ctl)]_vars

C38_Witness ==
    /\ \E k \in DOMAIN ctx.regs :
          /\ ctx.regs[k].ended.how = "raise"
          /\ ctx.regs[k].running # << >>
          /\ ctx.regs[k].target # ctx.regs[k].ended.ctl
          /\ ctx.regs[k].target = ctx.regs[k].running[Len(ctx.regs[k].running)]
    /\ \E k \in DOMAIN ctx.regs :
          /\ ctx.regs[k].ended.how = "return"
          /\ ctx.regs[k].running = << >>
          /\ ctx.regs[k].target = "RuntimeError"

\* C39: no step of invoke assigns Controller.model, which stays the model
\* given at construction whatever screen invoke is on; and in every state
\* copy() gives a controller on that initial model whose two task lists are
\* empty, so that it holds none of the original's tasks.
C39_CopyStartsFresh ==
    /\ [](/\ controller_model = InitialModel
          /\ copy.model = InitialModel
          /\ copy.persistent_tasks = << >> /\ copy.model_tasks = << >>
          /\ (Range(copy.persistent_tasks) \cup Range(copy.model_tasks)) \cap TaskIds = {})
    /\ [][controller_model' = controller_model]_vars

C39_Witness ==
    /\ pc \in SuspendPcs
    /\ model # InitialModel
    /\ controller_model = InitialModel
    /\ persistent_tasks # << >> /\ model_tasks # << >>
    /\ copy.model # model

\* The pages a Paginator has.
PageInRange(p, n) == 0 <= n /\ n < p.max_page

\* C40: a Paginator with max_page > 0 whose start_page lies in [0, max_page)
\* keeps current_page in [0, max_page) through every request, and a request
\* for a page outside that range (previous on the first page, next on the
\* last one, a typed number below 1 or above max_page) leaves current_page
\* as it was; a request inside the range is obeyed.
C40_PageBounds ==
    /\ []((/\ paginator.made
           /\ paginator.max_page > 0
           /\ PageInRange(paginator, paginator.start_page))
             => PageInRange(paginator, paginator.current_page))
    /\ [][(paginator.made /\ paginator'.made) =>
             /\ paginator'.max_page = paginator.max_page
             /\ paginator'.current_page =
                    (IF paginator'.last.error = None
                        /\ PageInRange(paginator, paginator'.last.page)
                     THEN paginator'.last.page
                     ELSE paginator.current_page)
             /\ paginator'.last.op = "previous" => paginator'.last.page = paginator.current_page - 1
             /\ paginator'.last.op = "next" => paginator'.last.page = paginator.current_page + 1]_vars

C40_Witness ==
    /\ paginator.made
    /\ paginator.max_page = 3
    /\ paginator.start_page = 1
    /\ paginator.last.op = "next"
    /\ paginator.last.page = paginator.max_page
    /\ paginator.current_page = paginator.max_page - 1

====
